---- MODULE Spec2Model ----
(***************************************************************************)
(* Model of the three conditioning noise schedulers of src/__init__.py:    *)
(*   ConditioningNoiseInjection.inject_noise              (manual)         *)
(*   ConditioningNoiseInjectionPresets.inject_noise_preset (preset)        *)
(*   ConditioningNoiseInjectionDynamic.inject_dynamic      (dynamic)       *)
(*                                                                         *)
(* Numbers.  The code computes with floats; the model computes the same    *)
(* expressions exactly, over integers:                                     *)
(*   - a time t in [0,1] is the integer t * TimeDen;                       *)
(*   - a strength (and a payload element) x is the integer x * StrDen;     *)
(*   - a recipe threshold is given in hundredths, a recipe intensity and   *)
(*     strength_scale in tenths, chaos_factor as cn / ChaosDen.            *)
(* TimeDen and StrDen are common denominators of every value the code can  *)
(* compute from the arguments the model draws, so no division rounds.      *)
(*                                                                         *)
(* A payload is a tensor of shape [batch, 1, 1]: the sequence of its batch *)
(* slices.  The torch generator is a deterministic stream of samples.      *)
(***************************************************************************)
EXTENDS Integers, Sequences, FiniteSets, TLC

VARIABLES pc, mode, args, g, segments, i, c_out, noises, exc

vars == <<pc, mode, args, g, segments, i, c_out, noises, exc>>

(* ------------------------------ bounds --------------------------------- *)

\* longest conditioning list a call receives
MaxInputs == 2
\* largest `steps` argument of inject_dynamic
MaxSteps == 3
\* largest `num_segments` argument of inject_dynamic
MaxSeg == 3
\* chaos_factor is drawn from {0, 1/ChaosDen, ..., 1}
ChaosDen == 2
\* longest recipe drawn beside the RECIPES table
MaxLayers == 2

(* ------------------------------ numbers -------------------------------- *)

RECURSIVE Fact(_)
Fact(n) == IF n <= 1 THEN 1 ELSE n * Fact(n - 1)

TimeDen == 100 * Fact(MaxSteps) * Fact(MaxSeg) * ChaosDen

\* one hundredth of the timeline
H == TimeDen \div 100

StrDen == 100 * ChaosDen * Fact(MaxSeg)

Max(a, b) == IF a >= b THEN a ELSE b

Min(a, b) == IF a <= b THEN a ELSE b

\* the value of a key that the params dict does not hold
None == -1

(* ------------------------------ payloads ------------------------------- *)

\* an input tensor of `batch` slices; slice b holds the value v + b
Tensor(v, batch) == [b \in 1..batch |-> StrDen * (v + b)]

\* current_batch_count / target_batch_count / processing_tensor
TargetBatch(t, batch_size_from_js) == Max(Len(t), batch_size_from_js)

\* variant: a payload of any other batch count is rebuilt at the requested one
RepeatMismatched(t, batch_size_from_js) ==
    IF Len(t) # batch_size_from_js /\ batch_size_from_js > 1
    THEN [b \in 1..batch_size_from_js |-> t[1]]
    ELSE t

ProcessingTensor(t, batch_size_from_js) ==
    IF Len(t) = 1 /\ TargetBatch(t, batch_size_from_js) > 1
    THEN [b \in 1..TargetBatch(t, batch_size_from_js) |-> t[1]]
    ELSE t

(* ------------------------------ generator ------------------------------ *)

\* torch.Generator: a state; manual_seed sets it from the seed
manual_seed(seed) == (seed * 7 + 1) % 16

\* one step of the stream
GenStep(s) == (s * 5 + 3) % 16

\* the sample read off a state
Sample(s) == (s % 5) - 2

RECURSIVE GenAdvance(_, _)
GenAdvance(s, n) == IF n = 0 THEN s ELSE GenAdvance(GenStep(s), n - 1)

\* variant: the draw leaves the generator where it found it
randn_stuck(s, n) ==
    [noise |-> [b \in 1..n |-> Sample(GenAdvance(s, b))], g |-> s]

\* torch.randn(size, generator=g): n samples, and the state it leaves
randn(s, n) ==
    [noise |-> [b \in 1..n |-> Sample(GenAdvance(s, b))], g |-> GenAdvance(s, n)]

\* variant: the noise is added at strength 1.0 whatever k is
BlendUnscaled(p, noise, k) == [b \in 1..Len(p) |-> p[b] + noise[b] * StrDen]

\* processing_tensor + (noise * strength), strength in units of 1/StrDen
Blend(p, noise, k) == [b \in 1..Len(p) |-> p[b] + noise[b] * k]

(* --------------------------- time intersection ------------------------- *)

OldStart(params) == IF params.start = None THEN 0 ELSE params.start

OldEnd(params) == IF params.end = None THEN TimeDen ELSE params.end

\* variant: the end is not clipped to the input's own end
get_time_intersection_unclipped(params, limit_start, limit_end) ==
    <<Max(OldStart(params), limit_start), limit_end>>

\* inject_noise_preset / inject_dynamic: the raw pair
get_time_intersection(params, limit_start, limit_end) ==
    <<Max(OldStart(params), limit_start), Min(OldEnd(params), limit_end)>>

\* inject_noise: the sentinel (1.0, 0.0) for an empty intersection
get_time_intersection_manual(params, limit_start, limit_end) ==
    LET new_start == Max(OldStart(params), limit_start)
        new_end == Min(OldEnd(params), limit_end)
    IN IF new_start >= new_end THEN <<TimeDen, 0>> ELSE <<new_start, new_end>>

(* ------------------------------ recipes -------------------------------- *)

\* RECIPES: <<threshold in hundredths, strength in tenths>>
RECIPES ==
    << <<>>,
       << <<55, 5>>, <<44, 5>>, <<33, 10>> >>,
       << <<45, 20>>, <<23, 40>> >>,
       << <<50, 15>>, <<22, 30>> >>,
       << <<34, 5>>, <<26, 10>>, <<17, 30>>, <<9, 50>> >>,
       << <<34, 10>>, <<26, 10>>, <<17, 10>>, <<9, 10>> >>,
       << <<45, 10>>, <<34, 30>>, <<23, 50>>, <<12, 80>> >>,
       << <<33, 40>>, <<33, 20>> >>,
       << <<45, 10>>, <<26, 30>>, <<10, 80>> >>,
       << <<51, 10>>, <<34, 20>>, <<18, 40>>, <<9, 80>> >>,
       << <<55, 20>>, <<15, 50>> >>,
       << <<66, 10>>, <<33, 20>> >>,
       << <<42, 30>>, <<18, 50>> >>,
       << <<51, 20>>, <<42, 20>>, <<26, 40>>, <<17, 60>> >>,
       << <<55, 20>>, <<35, 40>>, <<18, 60>> >>,
       << <<34, 20>>, <<23, 40>>, <<23, 40>> >>,
       << <<45, 10>>, <<34, 20>>, <<23, 60>>, <<23, 60>> >>,
       << <<51, 20>>, <<51, 20>> >>,
       << <<25, 40>>, <<25, 40>> >>,
       << <<35, 30>>, <<12, 150>> >>,
       << <<12, 250>>, <<23, 20>> >>,
       << <<17, 100>>, <<25, 10>> >>,
       << <<35, 20>>, <<9, 120>> >>,
       << <<17, 100>>, <<9, 50>> >> >>

\* layers of a recipe table other than the shipped one: thresholds over
\* {0.0, 0.5, 1.0}, strengths 2.0 and 0.0
ExtraLayers == {<<0, 20>>, <<50, 20>>, <<100, 20>>, <<50, 0>>}

ExtraRecipes == UNION {[1..n -> ExtraLayers] : n \in 0..MaxLayers}

Recipes == {RECIPES[k] : k \in 1..Len(RECIPES)} \cup ExtraRecipes

\* a layer: (thresh, str_val), thresh as a time
Thresh(layer) == layer[1] * H

StrVal(layer) == layer[2]

(* ------------------------- preset: time segments ----------------------- *)

\* variant: the breakpoint 1.0 is left out
break_points_open(raw_layers) ==
    {0} \cup {Thresh(raw_layers[k]) : k \in 1..Len(raw_layers)}

\* break_points = {0.0, 1.0} plus every threshold
break_points(raw_layers) ==
    {0, TimeDen} \cup {Thresh(raw_layers[k]) : k \in 1..Len(raw_layers)}

RECURSIVE sorted(_)
sorted(S) ==
    IF S = {} THEN <<>>
    ELSE LET m == CHOOSE x \in S : \A y \in S : x <= y
         IN <<m>> \o sorted(S \ {m})

\* variant: the pairs are appended from the last breakpoint down
PairsReversed(sorted_breaks) ==
    [k \in 1..(Len(sorted_breaks) - 1) |->
        <<sorted_breaks[Len(sorted_breaks) - k], sorted_breaks[Len(sorted_breaks) - k + 1]>>]

\* segments.append((sorted_breaks[i], sorted_breaks[i+1]))
Pairs(sorted_breaks) ==
    [k \in 1..(Len(sorted_breaks) - 1) |-> <<sorted_breaks[k], sorted_breaks[k + 1]>>]

\* variant: a layer is also active in the sub-window that starts at its threshold
RECURSIVE total_strength_inclusive(_, _)
total_strength_inclusive(raw_layers, valid_start) ==
    IF raw_layers = <<>> THEN 0
    ELSE (IF valid_start <= Thresh(Head(raw_layers)) THEN StrVal(Head(raw_layers)) ELSE 0)
         + total_strength_inclusive(Tail(raw_layers), valid_start)

\* variant: a layer is active from its threshold on, not up to it
RECURSIVE total_strength_after(_, _)
total_strength_after(raw_layers, valid_start) ==
    IF raw_layers = <<>> THEN 0
    ELSE (IF valid_start >= Thresh(Head(raw_layers)) THEN StrVal(Head(raw_layers)) ELSE 0)
         + total_strength_after(Tail(raw_layers), valid_start)

\* total_strength_for_segment, in tenths: every layer with valid_start < thresh
RECURSIVE total_strength_for_segment(_, _)
total_strength_for_segment(raw_layers, valid_start) ==
    IF raw_layers = <<>> THEN 0
    ELSE (IF valid_start < Thresh(Head(raw_layers)) THEN StrVal(Head(raw_layers)) ELSE 0)
         + total_strength_for_segment(Tail(raw_layers), valid_start)

\* final_strength = total_strength_for_segment * strength_scale, in 1/StrDen
PresetFinalStrength(raw_layers, valid_start, strength_scale) ==
    total_strength_for_segment(raw_layers, valid_start) * strength_scale * (StrDen \div 100)

\* The output of one (input, sub-window) pair.  payload, start and end are the
\* emitted segment; src, seg and strength record where it came from.
PresetOutput(src, t, processing_tensor, noise, k) ==
    LET v == get_time_intersection(t, segments[k][1], segments[k][2])
        final_strength == PresetFinalStrength(args.raw_layers, v[1], args.strength_scale)
    IN [payload |-> IF final_strength > 0
                    THEN Blend(processing_tensor, noise, final_strength)
                    ELSE processing_tensor,
        start |-> v[1], end |-> v[2],
        src |-> src, seg |-> k, strength |-> final_strength]

Emitted(o) == o.start < o.end

PresetOutputs(src, t, processing_tensor, noise) ==
    SelectSeq([k \in 1..Len(segments) |-> PresetOutput(src, t, processing_tensor, noise, k)],
              Emitted)

(* ------------------------- dynamic: the ramp --------------------------- *)

\* variant: another value than 1 stands in for steps < 1
StepsUsedNoGuard(steps) == IF steps < 1 THEN 2 ELSE steps

\* max(1, steps)
StepsUsed(steps) == Max(1, steps)

\* min_duration = step_len * 1.5, step_len = 1.0 / max(1, steps)
MinDuration(steps) == 15 * (TimeDen \div (10 * StepsUsed(steps)))

\* max_duration = 0.60
MaxDuration == 6 * (TimeDen \div 10)

\* target_duration, clamped to 1.0
TargetDuration(steps, cn) ==
    Min(MinDuration(steps) + ((MaxDuration - MinDuration(steps)) * cn) \div ChaosDen,
        TimeDen)

\* peak_strength = 2.0 + (20.0 - 2.0) * chaos_factor, in 1/StrDen
PeakStrength(cn) == 2 * StrDen + 18 * cn * (StrDen \div ChaosDen)

\* chunk_size = target_duration / num_segments (num_segments # 0)
ChunkSize(steps, num_segments, cn) ==
    IF num_segments > 0
    THEN TargetDuration(steps, cn) \div num_segments
    ELSE 0 - (TargetDuration(steps, cn) \div (0 - num_segments))

\* variant: progress = i / num_segments
SegmentStrengthOverCount(peak_strength, idx, num_segments) ==
    (peak_strength * (10 * num_segments - 9 * idx)) \div (10 * num_segments)

\* progress = i / max(1, num_segments - 1) if num_segments > 1 else 0.0
\* segment_strength = peak_strength * (1.0 - progress * 0.9)
SegmentStrength(peak_strength, idx, num_segments) ==
    IF num_segments > 1
    THEN (peak_strength * (10 * Max(1, num_segments - 1) - 9 * idx))
             \div (10 * Max(1, num_segments - 1))
    ELSE peak_strength

\* final_strength = segment_strength * strength_scale
DynamicFinalStrength(cn, idx, num_segments, strength_scale) ==
    (SegmentStrength(PeakStrength(cn), idx, num_segments) * strength_scale) \div 10

\* for i in range(num_segments): segments.append((start, end, final_strength))
RECURSIVE RampFrom(_, _, _, _, _, _)
RampFrom(idx, current_time, chunk_size, num_segments, cn, strength_scale) ==
    IF idx >= num_segments THEN <<>>
    ELSE <<<<current_time, current_time + chunk_size,
             DynamicFinalStrength(cn, idx, num_segments, strength_scale)>>>>
         \o RampFrom(idx + 1, current_time + chunk_size, chunk_size,
                     num_segments, cn, strength_scale)

Ramp(steps, num_segments, cn, strength_scale) ==
    RampFrom(0, 0, ChunkSize(steps, num_segments, cn), num_segments, cn, strength_scale)

\* the segments walked before `if seg_start >= 1.0: break`
RampCount(segs) ==
    IF \E k \in 1..Len(segs) : segs[k][1] >= TimeDen
    THEN (CHOOSE k \in 1..Len(segs) :
             /\ segs[k][1] >= TimeDen
             /\ \A j \in 1..(k - 1) : segs[j][1] < TimeDen) - 1
    ELSE Len(segs)

\* variant: last_end_time is never moved past 0.0
LastEndTimeStale(segs, n) == 0

\* last_end_time after the loop over the ramp
RECURSIVE LastEndTime(_, _)
LastEndTime(segs, n) ==
    IF n = 0 THEN 0 ELSE Max(LastEndTime(segs, n - 1), segs[n][2])

DynamicOutput(src, t, processing_tensor, noise, k) ==
    LET v == get_time_intersection(t, segments[k][1], segments[k][2])
    IN [payload |-> Blend(processing_tensor, noise, segments[k][3]),
        start |-> v[1], end |-> v[2],
        src |-> src, seg |-> k, strength |-> segments[k][3]]

\* the clean tail: from last_end_time to 1.0, the payload not blended
CleanTail(src, t, processing_tensor) ==
    LET v == get_time_intersection(t, LastEndTime(segments, RampCount(segments)), TimeDen)
    IN [payload |-> processing_tensor,
        start |-> v[1], end |-> v[2],
        src |-> src, seg |-> Len(segments) + 1, strength |-> 0]

DynamicOutputs(src, t, processing_tensor, noise) ==
    SelectSeq([k \in 1..RampCount(segments) |->
                  DynamicOutput(src, t, processing_tensor, noise, k)] 
              \o <<CleanTail(src, t, processing_tensor)>>,
              Emitted)

(* ------------------------------- manual -------------------------------- *)

\* the noisy part (0.0 -> threshold), then the clean part (threshold -> 1.0)
ManualOutputs(src, t, processing_tensor, noise) ==
    LET n == get_time_intersection_manual(t, 0, args.threshold)
        c == get_time_intersection_manual(t, args.threshold, TimeDen)
    IN SelectSeq(
         << [payload |-> Blend(processing_tensor, noise, args.strength * StrDen),
             start |-> n[1], end |-> n[2],
             src |-> src, seg |-> 1, strength |-> args.strength * StrDen],
            [payload |-> processing_tensor,
             start |-> c[1], end |-> c[2],
             src |-> src, seg |-> 2, strength |-> 0] >>,
         Emitted)

\* noise[b, 0, :5] for b in range(target_batch_count): an index past the
\* noise's batch dimension raises IndexError
ManualIndexError(t, processing_tensor) ==
    TargetBatch(t.tensor, args.batch_size_from_js) > Len(processing_tensor)

(* ------------------------------- inputs -------------------------------- *)

\* the conditioning items a call may hold: <<batch count, start_percent,
\* end_percent>>, the times in hundredths, None for a key the dict lacks.
\* (0.5, 0.2) is a degenerate window.
ItemShapes ==
    {<<1, None, None>>, <<2, None, None>>, <<1, 20, 50>>,
     <<2, 20, None>>, <<1, 50, 20>>}

WindowTime(x) == IF x = None THEN None ELSE x * H

\* a conditioning item t: t[0] the tensor, t[1] the params dict
Items ==
    {[tensor |-> Tensor(1, sh[1]), start |-> WindowTime(sh[2]), end |-> WindowTime(sh[3])] :
        sh \in ItemShapes}

Conditionings == UNION {[1..n -> Items] : n \in 0..MaxInputs}

\* strength_scale, in tenths
Scales == {0, 15}

\* seed_from_js and batch_size_from_js
Seeds == {0, 1}

BatchSizes == {1, 2, 3}

\* threshold (a time) and strength of inject_noise
Thresholds == {0, 20 * H, 50 * H, TimeDen}

Strengths == {0, 1, 10}

NoArgs ==
    [conditioning |-> <<>>, seed_from_js |-> 0, batch_size_from_js |-> 1,
     threshold |-> 0, strength |-> 0, raw_layers |-> <<>>, strength_scale |-> 0,
     steps |-> 1, num_segments |-> 1, chaos_factor |-> 0]

(* ------------------------------- actions ------------------------------- *)

Init ==
    /\ pc = "idle"
    /\ mode = "none"
    /\ args = NoArgs
    /\ g = None
    /\ segments = <<>>
    /\ i = 1
    /\ c_out = <<>>
    /\ noises = <<>>
    /\ exc = "none"

\* inject_noise up to its loop: c_out = [], the generator seeded
CallManual ==
    /\ pc = "idle"
    /\ \E conditioning \in Conditionings, threshold \in Thresholds, strength \in Strengths,
          seed \in Seeds, batch \in BatchSizes :
          /\ args' = [NoArgs EXCEPT !.conditioning = conditioning, !.threshold = threshold,
                                    !.strength = strength, !.seed_from_js = seed,
                                    !.batch_size_from_js = batch]
          /\ g' = manual_seed(seed)
    /\ mode' = "manual"
    /\ pc' = "loop"
    /\ UNCHANGED <<segments, i, c_out, noises, exc>>

\* inject_noise_preset up to its loop: the recipe looked up, the generator
\* seeded, the timeline cut at the thresholds
CallPreset ==
    /\ pc = "idle"
    /\ \E conditioning \in Conditionings, raw_layers \in Recipes, strength_scale \in Scales,
          seed \in Seeds, batch \in BatchSizes :
          /\ args' = [NoArgs EXCEPT !.conditioning = conditioning, !.raw_layers = raw_layers,
                                    !.strength_scale = strength_scale,
                                    !.seed_from_js = seed, !.batch_size_from_js = batch]
          /\ g' = manual_seed(seed)
          /\ segments' = Pairs(sorted(break_points(raw_layers)))
    /\ mode' = "preset"
    /\ pc' = "loop"
    /\ UNCHANGED <<i, c_out, noises, exc>>

\* inject_dynamic up to its loop: the ramp built, then the generator seeded;
\* target_duration / num_segments raises ZeroDivisionError for num_segments = 0
CallDynamic ==
    /\ pc = "idle"
    /\ \E conditioning \in Conditionings, steps \in 0..MaxSteps, num_segments \in (-1)..MaxSeg,
          cn \in 0..ChaosDen, strength_scale \in Scales,
          seed \in Seeds, batch \in BatchSizes :
          /\ args' = [NoArgs EXCEPT !.conditioning = conditioning, !.steps = steps,
                                    !.num_segments = num_segments, !.chaos_factor = cn,
                                    !.strength_scale = strength_scale,
                                    !.seed_from_js = seed, !.batch_size_from_js = batch]
          /\ IF num_segments = 0
             THEN /\ pc' = "raised"
                  /\ exc' = "ZeroDivisionError"
                  /\ UNCHANGED <<g, segments>>
             ELSE /\ pc' = "loop"
                  /\ g' = manual_seed(seed)
                  /\ segments' = Ramp(steps, num_segments, cn, strength_scale)
                  /\ UNCHANGED exc
    /\ mode' = "dynamic"
    /\ UNCHANGED <<i, c_out, noises>>

\* one pass of `for i, t in enumerate(conditioning)` of inject_noise
LoopManual ==
    /\ pc = "loop" /\ mode = "manual" /\ i <= Len(args.conditioning)
    /\ LET t == args.conditioning[i]
           processing_tensor == ProcessingTensor(t.tensor, args.batch_size_from_js)
           r == randn(g, Len(processing_tensor))
       IN /\ g' = r.g
          /\ noises' = Append(noises, r.noise)
          /\ IF ManualIndexError(t, processing_tensor)
             THEN /\ pc' = "raised"
                  /\ exc' = "IndexError"
                  /\ UNCHANGED <<i, c_out>>
             ELSE /\ c_out' = c_out \o ManualOutputs(i, t, processing_tensor, r.noise)
                  /\ i' = i + 1
                  /\ UNCHANGED <<pc, exc>>
    /\ UNCHANGED <<mode, args, segments>>

\* one pass of `for t in conditioning` of inject_noise_preset
LoopPreset ==
    /\ pc = "loop" /\ mode = "preset" /\ i <= Len(args.conditioning)
    /\ LET t == args.conditioning[i]
           processing_tensor == ProcessingTensor(t.tensor, args.batch_size_from_js)
           r == randn(g, Len(processing_tensor))
       IN /\ g' = r.g
          /\ noises' = Append(noises, r.noise)
          /\ c_out' = c_out \o PresetOutputs(i, t, processing_tensor, r.noise)
    /\ i' = i + 1
    /\ UNCHANGED <<pc, mode, args, segments, exc>>

\* one pass of `for t in conditioning` of inject_dynamic
LoopDynamic ==
    /\ pc = "loop" /\ mode = "dynamic" /\ i <= Len(args.conditioning)
    /\ LET t == args.conditioning[i]
           processing_tensor == ProcessingTensor(t.tensor, args.batch_size_from_js)
           r == randn(g, Len(processing_tensor))
       IN /\ g' = r.g
          /\ noises' = Append(noises, r.noise)
          /\ c_out' = c_out \o DynamicOutputs(i, t, processing_tensor, r.noise)
    /\ i' = i + 1
    /\ UNCHANGED <<pc, mode, args, segments, exc>>

\* return (c_out, ) / return (c_out, steps, )
Return ==
    /\ pc = "loop" /\ i > Len(args.conditioning)
    /\ pc' = "done"
    /\ UNCHANGED <<mode, args, g, segments, i, c_out, noises, exc>>

Next ==
    \/ CallManual
    \/ CallPreset
    \/ CallDynamic
    \/ LoopManual
    \/ LoopPreset
    \/ LoopDynamic
    \/ Return

Spec == Init /\ [][Next]_vars

(* ------------------------- what the claims read ------------------------ *)

Input(o) == args.conditioning[o.src]

\* the batch-expanded payload of the input an output came from
Expanded(o) == ProcessingTensor(Input(o).tensor, args.batch_size_from_js)

Called == pc \in {"loop", "done"}

\* the sum of the strengths (tenths) of the layers with threshold > seg_start
RECURSIVE SumOfLayers(_, _)
SumOfLayers(raw_layers, K) ==
    IF K = {} THEN 0
    ELSE LET k == CHOOSE x \in K : TRUE
         IN StrVal(raw_layers[k]) + SumOfLayers(raw_layers, K \ {k})

ActiveLayers(raw_layers, seg_start) ==
    {k \in 1..Len(raw_layers) : Thresh(raw_layers[k]) > seg_start}

EffectiveIntensity(seg_start) ==
    SumOfLayers(args.raw_layers, ActiveLayers(args.raw_layers, seg_start))
        * args.strength_scale * (StrDen \div 100)

(* --------------------------------- C1 ---------------------------------- *)

\* C1: in inject_noise_preset, the intensity blended into the output emitted
\* for sub-window [seg_start, seg_end) is strength_scale times the sum of the
\* strengths of exactly the layers with threshold > seg_start (strict), also
\* when the input's own window starts strictly inside the sub-window; so a
\* layer of threshold 0.0 contributes nowhere and layers of equal thresholds
\* contribute to the same sub-windows.
C1_StrictLayerSum ==
    mode = "preset" =>
        \A n \in 1..Len(c_out) :
            LET o == c_out[n]
                intensity == EffectiveIntensity(segments[o.seg][1])
            IN /\ o.strength = intensity
               /\ o.payload = [b \in 1..Len(Expanded(o)) |->
                                  Expanded(o)[b] + noises[o.src][b] * intensity]

\* an output whose window starts strictly inside its sub-window, blended at a
\* positive intensity, under a recipe with two layers of one threshold
C1_Witness ==
    /\ mode = "preset" /\ pc = "done"
    /\ \E a, b \in 1..Len(args.raw_layers) :
          a # b /\ Thresh(args.raw_layers[a]) = Thresh(args.raw_layers[b])
    /\ \E n \in 1..Len(c_out) :
          /\ c_out[n].start > segments[c_out[n].seg][1]
          /\ c_out[n].strength > 0
          /\ c_out[n].payload # Expanded(c_out[n])

(* --------------------------------- C2 ---------------------------------- *)

\* C2: the sub-windows inject_noise_preset builds from the sorted breakpoints
\* {0.0, 1.0} plus the thresholds partition [0,1): each has positive width,
\* consecutive ones share an endpoint, the first starts at 0.0 and the last
\* ends at 1.0.
C2_Partition ==
    (mode = "preset" /\ Called) =>
        /\ Len(segments) >= 1
        /\ segments[1][1] = 0
        /\ segments[Len(segments)][2] = TimeDen
        /\ \A k \in 1..Len(segments) : segments[k][1] < segments[k][2]
        /\ \A k \in 1..(Len(segments) - 1) : segments[k][2] = segments[k + 1][1]

\* a recipe with a threshold 0.0 and a threshold 1.0, which add no breakpoint:
\* one sub-window, the whole timeline
C2_Witness ==
    /\ mode = "preset" /\ Called
    /\ \E a, b \in 1..Len(args.raw_layers) :
          /\ Thresh(args.raw_layers[a]) = 0
          /\ Thresh(args.raw_layers[b]) = TimeDen
    /\ segments = <<<<0, TimeDen>>>>

(* --------------------------------- C3 ---------------------------------- *)

\* C3: in all three schedulers every emitted output has start_percent <
\* end_percent and its window lies within the window of the input it came from
\* ((0.0, 1.0) where the input carries none); nothing is emitted for an empty
\* or zero-width intersection.
C3_WindowContained ==
    \A n \in 1..Len(c_out) :
        LET o == c_out[n]
        IN /\ o.start < o.end
           /\ OldStart(Input(o)) <= o.start
           /\ o.end <= OldEnd(Input(o))

\* an input with a degenerate window gave nothing, the next one, with a window
\* of its own, gave outputs that start after 0.0 and end before 1.0
C3_Witness ==
    /\ pc = "done" /\ mode = "dynamic"
    /\ Len(args.conditioning) = 2
    /\ OldStart(args.conditioning[1]) >= OldEnd(args.conditioning[1])
    /\ Len(c_out) >= 2
    /\ \A n \in 1..Len(c_out) :
          c_out[n].src = 2 /\ c_out[n].start > 0 /\ c_out[n].end < TimeDen

(* --------------------------------- C4 ---------------------------------- *)

\* the output is the clean tail of inject_dynamic
IsCleanTail(o) == mode = "dynamic" /\ o.seg = Len(segments) + 1

\* the sub-window of the output has effective intensity exactly 0: the recipe
\* is empty or has no layer active there, strength_scale is 0, or it is the
\* clean tail
ZeroIntensity(o) ==
    \/ args.strength_scale = 0
    \/ o.strength = 0
    \/ IsCleanTail(o)
    \/ mode = "preset" /\ ActiveLayers(args.raw_layers, segments[o.seg][1]) = {}

\* C4: in inject_noise_preset and inject_dynamic, an output emitted for a
\* sub-window of effective intensity exactly 0 carries the batch-expanded input
\* payload, with no noise in it; the ramp sub-windows of inject_dynamic under
\* strength_scale = 0 included.
C4_ZeroIntensityPassthrough ==
    mode \in {"preset", "dynamic"} =>
        \A n \in 1..Len(c_out) :
            ZeroIntensity(c_out[n]) => c_out[n].payload = Expanded(c_out[n])

\* a ramp sub-window of inject_dynamic under strength_scale = 0, over an input
\* whose noise is not zero, and a clean tail after it
C4_Witness ==
    /\ mode = "dynamic" /\ pc = "done"
    /\ args.strength_scale = 0
    /\ \E n, m \in 1..Len(c_out) :
          /\ c_out[n].src = c_out[m].src
          /\ c_out[n].seg <= Len(segments)
          /\ IsCleanTail(c_out[m])
          /\ \E b \in 1..Len(noises[c_out[n].src]) : noises[c_out[n].src][b] # 0

(* --------------------------------- C5 ---------------------------------- *)

\* the number of samples the inputs before input j take from the generator
RECURSIVE SamplesBefore(_)
SamplesBefore(j) ==
    IF j <= 1 THEN 0
    ELSE SamplesBefore(j - 1)
         + Len(ProcessingTensor(args.conditioning[j - 1].tensor, args.batch_size_from_js))

\* the k-th sample of the stream of a generator seeded once with the seed
RECURSIVE StateAfter(_)
StateAfter(k) == IF k = 0 THEN manual_seed(args.seed_from_js) ELSE GenStep(StateAfter(k - 1))

StreamSample(k) == Sample(StateAfter(k))

\* C5: the generator is seeded once before the first input and drawn from
\* once per input, in input order, also for an input that gives no output: the
\* noise of input j is the stretch of the seeded stream that starts where input
\* j-1 left it, and every output of input j is blended with that same noise.
C5_OneDrawPerInput ==
    (pc \in {"loop", "done"} \/ (pc = "raised" /\ mode = "manual")) =>
        /\ Len(noises) = (IF pc = "raised" THEN i ELSE i - 1)
        /\ g = StateAfter(SamplesBefore(Len(noises) + 1))
        /\ \A j \in 1..Len(noises) :
              /\ Len(noises[j])
                   = Len(ProcessingTensor(args.conditioning[j].tensor, args.batch_size_from_js))
              /\ \A b \in 1..Len(noises[j]) :
                    noises[j][b] = StreamSample(SamplesBefore(j) + b)
        /\ \A n \in 1..Len(c_out) :
              /\ c_out[n].src < i
              /\ c_out[n].payload
                   = [b \in 1..Len(Expanded(c_out[n])) |->
                        Expanded(c_out[n])[b]
                          + StreamSample(SamplesBefore(c_out[n].src) + b) * c_out[n].strength]

\* the first input gave no output, the second gave two blended outputs whose
\* noise is not the noise of the first input
C5_Witness ==
    /\ pc = "done" /\ mode \in {"preset", "dynamic"}
    /\ Len(args.conditioning) = 2
    /\ Len(noises) = 2
    /\ noises[1] # noises[2]
    /\ Len(noises[1]) = Len(noises[2])
    /\ \A n \in 1..Len(c_out) : c_out[n].src = 2
    /\ \E n, m \in 1..Len(c_out) :
          /\ n # m
          /\ c_out[n].strength > 0 /\ c_out[m].strength > 0
          /\ c_out[n].payload # Expanded(c_out[n])
          /\ c_out[m].payload # Expanded(c_out[m])

(* --------------------------------- C6 ---------------------------------- *)

\* C6: the outputs are ordered by input first and, within one input, by
\* ascending sub-window: of two consecutive outputs of one input the later
\* starts at or after the end of the earlier.  It holds for
\* inject_noise_preset and for inject_dynamic (the ramp, then the clean tail).
C6_OutputOrder ==
    mode \in {"preset", "dynamic"} =>
        \A n \in 1..(Len(c_out) - 1) :
            /\ c_out[n].src <= c_out[n + 1].src
            /\ c_out[n].src = c_out[n + 1].src =>
                  /\ c_out[n].seg < c_out[n + 1].seg
                  /\ c_out[n].start < c_out[n].end
                  /\ c_out[n].end <= c_out[n + 1].start

\* two inputs, each with ramp outputs and then its clean tail
C6_Witness ==
    /\ pc = "done" /\ mode = "dynamic"
    /\ \E n \in 2..(Len(c_out) - 3) :
          /\ c_out[n - 1].src = 1 /\ ~IsCleanTail(c_out[n - 1])
          /\ c_out[n].src = 1 /\ IsCleanTail(c_out[n])
          /\ c_out[n + 1].src = 2 /\ ~IsCleanTail(c_out[n + 1])
          /\ c_out[n + 2].src = 2 /\ ~IsCleanTail(c_out[n + 2])
          /\ c_out[n + 3].src = 2 /\ IsCleanTail(c_out[n + 3])

(* --------------------------------- C7 ---------------------------------- *)

NonNegative ==
    /\ args.strength_scale >= 0
    /\ \A k \in 1..Len(args.raw_layers) : StrVal(args.raw_layers[k]) >= 0

\* C7: for a recipe of non-negative strengths and a non-negative
\* strength_scale, the intensities inject_noise_preset gives the sub-windows
\* do not increase with seg_start, and the sub-window that ends at 1.0 has
\* intensity 0 unless some layer has threshold exactly 1.0.
C7_NonIncreasing ==
    (mode = "preset" /\ NonNegative) =>
        \A n, m \in 1..Len(c_out) :
            /\ c_out[n].seg <= c_out[m].seg => c_out[n].strength >= c_out[m].strength
            /\ (/\ c_out[n].seg = Len(segments)
                /\ \A k \in 1..Len(args.raw_layers) : Thresh(args.raw_layers[k]) # TimeDen)
               => /\ c_out[n].strength = 0
                  /\ c_out[n].payload = Expanded(c_out[n])

\* one input cut into four outputs of strictly falling intensity, the last 0
C7_Witness ==
    /\ pc = "done" /\ mode = "preset"
    /\ \E n \in 1..(Len(c_out) - 3) :
          /\ \A d \in 0..3 : c_out[n + d].src = c_out[n].src
          /\ \A d \in 0..2 : c_out[n + d].strength > c_out[n + d + 1].strength
          /\ c_out[n + 3].strength = 0
          /\ c_out[n + 3].end = TimeDen

(* --------------------------------- C8 ---------------------------------- *)

BatchOf(t) == Len(t.tensor)

\* the leading dimension of input j is neither 1 nor the requested batch count
Mismatched(j) == BatchOf(args.conditioning[j]) \notin {1, args.batch_size_from_js}

\* inject_noise only: the leading dimension is above 1 and below the requested
\* batch count
BelowRequested(t) == 1 < BatchOf(t) /\ BatchOf(t) < args.batch_size_from_js

\* C8 as claimed: a call that holds an input whose leading dimension is neither
\* 1 nor the requested batch count ends in an error and returns no output.
C8_MismatchRaises ==
    (mode # "none" /\ \E j \in 1..Len(args.conditioning) : Mismatched(j)) => pc # "done"

\* C8 amended: no scheduler checks the leading dimension.  A payload whose
\* leading dimension is above 1 is passed through at its own batch size,
\* blended with noise of that size, and a payload of leading dimension 1 is
\* repeated to batch_size_from_js; inject_noise_preset and inject_dynamic never
\* raise for it.  inject_noise does the same, but its call ends in an
\* IndexError, returning nothing, at the first input whose leading dimension is
\* above 1 and below batch_size_from_js.
C8_MismatchPassedThrough ==
    /\ (mode \in {"preset", "dynamic"} /\ pc = "raised") =>
          (mode = "dynamic" /\ args.num_segments = 0)
    /\ (mode = "manual" /\ pc = "raised") =>
          /\ exc = "IndexError"
          /\ BelowRequested(args.conditioning[i])
          /\ \A j \in 1..(i - 1) : ~BelowRequested(args.conditioning[j])
    /\ (mode = "manual" /\ pc \in {"loop", "done"}) =>
          \A j \in 1..(i - 1) : ~BelowRequested(args.conditioning[j])
    /\ \A n \in 1..Len(c_out) :
          LET o == c_out[n]
              t == Input(o)
          IN /\ Len(o.payload)
                  = (IF BatchOf(t) = 1 THEN Max(1, args.batch_size_from_js) ELSE BatchOf(t))
             /\ Len(noises[o.src]) = Len(o.payload)
             /\ \A b \in 1..Len(o.payload) :
                   o.payload[b]
                     = t.tensor[IF BatchOf(t) = 1 THEN 1 ELSE b] + noises[o.src][b] * o.strength

\* inject_noise_preset returned outputs of batch size 2 for an input of
\* leading dimension 2 under a requested batch count of 3
C8_Witness ==
    /\ mode = "preset" /\ pc = "done"
    /\ args.batch_size_from_js = 3
    /\ \E n \in 1..Len(c_out) :
          /\ BatchOf(Input(c_out[n])) = 2
          /\ Len(c_out[n].payload) = 2
          /\ c_out[n].strength > 0
          /\ c_out[n].payload # Input(c_out[n]).tensor

(* --------------------------------- C9 ---------------------------------- *)

\* C9 as claimed: a call of inject_dynamic with num_segments <= 0 or
\* steps <= 0 ends in an error: no output list is returned.
C9_InvalidArgumentRaises ==
    (mode = "dynamic" /\ (args.num_segments <= 0 \/ args.steps <= 0)) => pc # "done"

\* the inputs whose own window is not degenerate
ProperInputs == {j \in 1..Len(args.conditioning) :
                    OldStart(args.conditioning[j]) < OldEnd(args.conditioning[j])}

\* C9 amended: in inject_dynamic only num_segments = 0 is fatal: the call ends
\* in a ZeroDivisionError and returns no output list.  steps <= 0 raises
\* nothing: 1 is substituted for it (max(1, steps)).  num_segments < 0 raises
\* nothing either: the ramp is empty and every input with a proper window is
\* returned as one clean output over that window.
C9_OnlyZeroSegmentsRaises ==
    mode = "dynamic" =>
        /\ (args.num_segments = 0) <=> (pc = "raised")
        /\ pc = "raised" => (exc = "ZeroDivisionError" /\ c_out = <<>>)
        /\ (args.steps <= 0 /\ Called) =>
              segments = Ramp(1, args.num_segments, args.chaos_factor, args.strength_scale)
        /\ (args.num_segments < 0 /\ Called) =>
              /\ segments = <<>>
              /\ \A n \in 1..Len(c_out) :
                    /\ c_out[n].start = OldStart(Input(c_out[n]))
                    /\ c_out[n].end = OldEnd(Input(c_out[n]))
                    /\ c_out[n].payload = Expanded(c_out[n])
              /\ pc = "done" => Len(c_out) = Cardinality(ProperInputs)

\* a call with steps = 0 and num_segments = 2 returned a ramp and a clean tail
C9_Witness ==
    /\ mode = "dynamic" /\ pc = "done"
    /\ args.steps = 0 /\ args.num_segments = 2
    /\ Len(segments) = 2
    /\ \E n \in 1..(Len(c_out) - 2) :
          /\ c_out[n].seg = 1 /\ c_out[n + 1].seg = 2 /\ IsCleanTail(c_out[n + 2])
          /\ c_out[n].src = c_out[n + 2].src

(* --------------------------------- C10 --------------------------------- *)

ValidDynamic ==
    /\ mode = "dynamic" /\ Called
    /\ args.steps >= 1 /\ args.num_segments >= 1

chunk_size == ChunkSize(args.steps, args.num_segments, args.chaos_factor)

\* peak_intensity * strength_scale, in units of 1/(10 * StrDen)
PeakTimesScale == PeakStrength(args.chaos_factor) * args.strength_scale

\* ramp sub-window idx (0-based) is [idx * chunk_size, (idx + 1) * chunk_size)
RampWindows ==
    /\ Len(segments) = args.num_segments
    /\ \A idx \in 0..(args.num_segments - 1) :
          /\ segments[idx + 1][1] = idx * chunk_size
          /\ segments[idx + 1][2] = (idx + 1) * chunk_size

\* C10 as claimed: for steps >= 1 and num_segments >= 1 the ramp sub-windows
\* are [i * chunk_size, (i + 1) * chunk_size), their intensities fall linearly
\* from peak_intensity * strength_scale at the first to a tenth of it at the
\* last, and a clean sub-window [num_segments * chunk_size, 1.0) follows.
C10_RampAsClaimed ==
    ValidDynamic =>
        /\ RampWindows
        /\ \A idx \in 0..(args.num_segments - 1) :
              100 * (args.num_segments - 1) * segments[idx + 1][3]
                = PeakTimesScale * (10 * (args.num_segments - 1) - 9 * idx)
        /\ 10 * segments[1][3] = PeakTimesScale
        /\ 100 * segments[args.num_segments][3] = PeakTimesScale
        /\ args.num_segments * chunk_size < TimeDen

\* the clean outputs of input j
CleanOutputs(j) == {n \in 1..Len(c_out) : c_out[n].src = j /\ IsCleanTail(c_out[n])}

\* C10 amended: for steps >= 1 and num_segments >= 1 ramp sub-window i is
\* [i * chunk_size, (i + 1) * chunk_size).  For num_segments >= 2 its intensity
\* is peak_intensity * (1 - 0.9 * i / (num_segments - 1)) * strength_scale,
\* falling linearly from peak_intensity * strength_scale to a tenth of it; for
\* num_segments = 1 the one ramp sub-window has the intensity
\* peak_intensity * strength_scale.  The clean sub-window is
\* [num_segments * chunk_size, 1.0); it is empty, and nothing is emitted for it,
\* when target_duration is clamped to 1.0 (steps = 1, chaos_factor <= 5/9).
C10_Ramp ==
    ValidDynamic =>
        /\ RampWindows
        /\ args.num_segments >= 2 =>
              /\ \A idx \in 0..(args.num_segments - 1) :
                    100 * (args.num_segments - 1) * segments[idx + 1][3]
                      = PeakTimesScale * (10 * (args.num_segments - 1) - 9 * idx)
              /\ 10 * segments[1][3] = PeakTimesScale
              /\ 100 * segments[args.num_segments][3] = PeakTimesScale
        /\ args.num_segments = 1 => 10 * segments[1][3] = PeakTimesScale
        /\ args.num_segments * chunk_size <= TimeDen
        /\ (args.num_segments * chunk_size = TimeDen) <=>
              (args.steps = 1 /\ 9 * args.chaos_factor <= 5 * ChaosDen)
        /\ \A n \in 1..Len(c_out) :
              IsCleanTail(c_out[n]) =>
                 /\ c_out[n].start
                      = Max(OldStart(Input(c_out[n])), args.num_segments * chunk_size)
                 /\ c_out[n].end = OldEnd(Input(c_out[n]))
                 /\ c_out[n].payload = Expanded(c_out[n])
        /\ \A j \in 1..(i - 1) :
              Cardinality(CleanOutputs(j))
                = (IF Max(OldStart(args.conditioning[j]), args.num_segments * chunk_size)
                        < OldEnd(args.conditioning[j])
                   THEN 1 ELSE 0)

\* a ramp of three sub-windows of falling positive intensity over an input
\* without a window of its own, then the clean tail up to 1.0
C10_Witness ==
    /\ ValidDynamic /\ pc = "done"
    /\ args.num_segments = 3 /\ args.strength_scale > 0
    /\ \E n \in 1..(Len(c_out) - 3) :
          /\ \A d \in 0..3 : c_out[n + d].src = c_out[n].src
          /\ c_out[n].start = 0
          /\ \A d \in 0..2 :
                /\ c_out[n + d].seg = d + 1
                /\ c_out[n + d].end = c_out[n + d + 1].start
          /\ c_out[n].strength > c_out[n + 1].strength
          /\ c_out[n + 1].strength > c_out[n + 2].strength
          /\ c_out[n].strength = 10 * c_out[n + 2].strength
          /\ IsCleanTail(c_out[n + 3])
          /\ c_out[n + 3].end = TimeDen

(* --------------------------------- C11 --------------------------------- *)

\* the outputs derived from input j, in the order of c_out
OutputsOf(j) ==
    LET FromJ(o) == o.src = j
    IN SelectSeq(c_out, FromJ)

\* the windows of outs tile [s, e): the first starts at s, each starts where
\* the one before it ends, the last ends at e, and each has positive width
Tiles(outs, s, e) ==
    /\ Len(outs) >= 1
    /\ outs[1].start = s
    /\ outs[Len(outs)].end = e
    /\ \A n \in 1..Len(outs) : outs[n].start < outs[n].end
    /\ \A n \in 1..(Len(outs) - 1) : outs[n].end = outs[n + 1].start

\* C11: for every input with window (s, e), 0 <= s < e <= 1, the windows of
\* the outputs inject_noise_preset derives from it, and likewise those of
\* inject_dynamic (the ramp sub-windows and the clean tail), tile the input
\* window exactly: disjoint, each starting where the one before ends, the first
\* at s and the last at e; an input with a degenerate window (s >= e) gives no
\* output.
C11_OutputsTileInput ==
    (mode \in {"preset", "dynamic"} /\ Called) =>
        \A j \in 1..(i - 1) :
            LET t == args.conditioning[j]
            IN IF OldStart(t) < OldEnd(t)
               THEN Tiles(OutputsOf(j), OldStart(t), OldEnd(t))
               ELSE OutputsOf(j) = <<>>

\* inject_dynamic cut an input whose window starts at 0.2 into two ramp
\* outputs and a clean tail, and gave nothing for an input of degenerate window
C11_Witness ==
    /\ mode = "dynamic" /\ pc = "done"
    /\ \E j, d \in 1..Len(args.conditioning) :
          /\ OldStart(args.conditioning[j]) > 0
          /\ Len(OutputsOf(j)) = 3
          /\ OutputsOf(j)[1].start > segments[OutputsOf(j)[1].seg][1]
          /\ IsCleanTail(OutputsOf(j)[3])
          /\ OldStart(args.conditioning[d]) >= OldEnd(args.conditioning[d])
          /\ OutputsOf(d) = <<>>

====
